---------------------------- MODULE Spec2Model ----------------------------
(***************************************************************************)
(* A model of streamlit_PDF_generator.py: the module-level credential      *)
(* lookup, the AIClient content provider (Groq chat completion with a      *)
(* template fallback), the PDFGenerator renderer and the Streamlit script   *)
(* main(), which Streamlit runs top to bottom once per user interaction.   *)
(*                                                                         *)
(* Python strings are modelled as sequences of one-character strings, so   *)
(* that strip, startswith, split, replace, lower, isupper and str.format   *)
(* are computed character by character as CPython computes them.           *)
(***************************************************************************)
EXTENDS Integers, Sequences, FiniteSets, TLC

VARIABLES
  secrets,         \* the external secret store st.secrets reads from
  started,         \* position of the module-level code: "no", "running", "crashed"
  GROQ_API_TOKEN,  \* the module global set at line 34
  session_state,   \* st.session_state: the keys the script has stored
  call,            \* the operation in progress or just finished, with its arguments and result
  ui,              \* the elements the operation has emitted through st.*, in order
  requests         \* the HTTP requests the operation has issued, in order

vars == <<secrets, started, GROQ_API_TOKEN, session_state, call, ui, requests>>

---------------------------------------------------------------------------
(* Bounds of the model.                                                    *)

MaxPromptWords == 1      \* words per prompt handed to the AIClient methods
MaxContentWords == 2     \* words per completion text the endpoint returns
MaxCleanWords == 2       \* words per text handed to clean_text_for_pdf
MaxTextWords == 3        \* words per text handed to create_pdf
MaxShellWords == 1       \* words per prompt typed into the text area
MaxGenerations == 1      \* Generate PDF actions followed within one session

---------------------------------------------------------------------------
(* Python str, as a sequence of characters.                                *)

Chars(s) == [i \in 1..Len(s) |-> SubSeq(s, i, i)]

\* the least element of a non-empty set of integers
Min(S) == CHOOSE x \in S : \A y \in S : x <= y

RECURSIVE Flatten(_)
Flatten(ws) == IF ws = <<>> THEN <<>> ELSE Head(ws) \o Flatten(Tail(ws))

RECURSIVE SeqsUpTo(_, _)
SeqsUpTo(S, n) ==
  IF n = 0 THEN {<<>>}
  ELSE LET shorter == SeqsUpTo(S, n - 1)
       IN shorter \cup {Append(q, w) : q \in shorter, w \in S}

Range(f) == {f[i] : i \in DOMAIN f}
UpperLetters == Chars("ABCDEFGHIJKLMNOPQRSTUVWXYZ")
LowerLetters == Chars("abcdefghijklmnopqrstuvwxyz")
Upper == Range(UpperLetters)
Lower == Range(LowerLetters)
Digits == Chars("0123456789")
Whitespace == {" ", "\n", "\t", "\r"}

\* the characters clean_text_for_pdf is about; TLA+ strings are ASCII, so each
\* is a one-element token named after its code point
LSQUO == "U+2018"
RSQUO == "U+2019"
LDQUO == "U+201C"
RDQUO == "U+201D"
NDASH == "U+2013"
MDASH == "U+2014"

lower_char(c) ==
  IF c \in Upper
  THEN LowerLetters[CHOOSE i \in DOMAIN UpperLetters : UpperLetters[i] = c]
  ELSE c

\* str.lower()
lower(s) == [i \in DOMAIN s |-> lower_char(s[i])]

\* str.isupper(): at least one cased character, and no lower-case one
isupper(s) ==
  /\ \E i \in DOMAIN s : s[i] \in Upper
  /\ \A i \in DOMAIN s : s[i] \notin Lower

\* str.strip()
strip(s) ==
  LET n == Len(s)
      first == CHOOSE i \in 1..n : s[i] \notin Whitespace /\ \A j \in 1..(i - 1) : s[j] \in Whitespace
      drop == CHOOSE k \in 0..(n - 1) :
                s[n - k] \notin Whitespace /\ \A j \in (n - k + 1)..n : s[j] \in Whitespace
  IN IF \A i \in 1..n : s[i] \in Whitespace THEN <<>> ELSE SubSeq(s, first, n - drop)

\* str.startswith(p)
startswith(s, p) == Len(s) >= Len(p) /\ SubSeq(s, 1, Len(p)) = p

\* str.endswith(p)
endswith(s, p) == Len(s) >= Len(p) /\ SubSeq(s, Len(s) - Len(p) + 1, Len(s)) = p

\* str.replace(old, new) for a one-character old and new
replace(s, old, new) == [i \in DOMAIN s |-> IF s[i] = old THEN new ELSE s[i]]

\* str.split(sep): the separators are found left to right, without overlap
split(s, sep) ==
  LET n == Len(sep)
      at == {i \in 1..(Len(s) - n + 1) : s[i] = sep[1] /\ \A k \in 2..n : s[i + k - 1] = sep[k]}
      RECURSIVE from(_)
      from(start) ==
        LET next == {i \in at : i >= start}
        IN IF next = {} THEN <<SubSeq(s, start, Len(s))>>
           ELSE <<SubSeq(s, start, Min(next) - 1)>> \o from(Min(next) + n)
  IN from(1)

\* the digits of a natural number, as str(n) and f"{n}" give them
RECURSIVE int_str(_)
int_str(n) ==
  IF n < 10 THEN <<Digits[n + 1]>>
  ELSE Append(int_str(n \div 10), Digits[(n % 10) + 1])

\* The outcome of a Python call: a returned value, or a raised exception with
\* its str(e).
Return(v) == [exc |-> "", val |-> v]
Raise(type, msg) == [exc |-> type, val |-> Chars(msg)]

---------------------------------------------------------------------------
(* AIClient.generate_with_template                                         *)

\* The five templates of lines 297-439, verbatim but for the bullet U+2022,
\* written * here: TLA+ strings are ASCII, and like * the bullet is neither
\* cased, nor whitespace, nor a brace, nor a colon.
TemplateCoverLetter ==
  Chars("Dear Hiring Manager,\n\n"
     \o "I am writing to express my strong interest in the position you have available. Based on the information provided:\n\n"
     \o "{prompt}\n\n"
     \o "I am confident that my background and skills make me an excellent candidate for this role. My experience includes:\n\n"
     \o "* Strong analytical and problem-solving abilities\n"
     \o "* Excellent written and verbal communication skills\n"
     \o "* Proven track record of working effectively in team environments\n"
     \o "* Adaptability and eagerness to learn new technologies and methodologies\n\n"
     \o "I am excited about the opportunity to contribute to your organization and would welcome the chance to discuss how my qualifications align with your needs. I am available for an interview at your convenience and look forward to hearing from you.\n\n"
     \o "Thank you for your time and consideration.\n\n"
     \o "Sincerely,\n"
     \o "[Your Name]")

TemplateResume ==
  Chars("[YOUR NAME]\n"
     \o "[Your Email Address] | [Your Phone Number] | [Your City, State]\n"
     \o "[LinkedIn Profile] | [Portfolio/Website]\n\n"
     \o "PROFESSIONAL SUMMARY\n"
     \o "Experienced professional with a strong background in the requirements outlined: {prompt}\n\n"
     \o "CORE COMPETENCIES\n"
     \o "* Technical Skills: [Based on your background]\n"
     \o "* Leadership & Team Management\n"
     \o "* Project Management\n"
     \o "* Problem Solving & Analysis\n"
     \o "* Communication & Collaboration\n\n"
     \o "PROFESSIONAL EXPERIENCE\n\n"
     \o "[MOST RECENT POSITION] | [Company Name] | [Dates]\n"
     \o "* Led projects and initiatives resulting in improved efficiency\n"
     \o "* Collaborated with cross-functional teams to achieve organizational goals  \n"
     \o "* Implemented solutions that enhanced operational effectiveness\n"
     \o "* Demonstrated expertise in relevant technologies and methodologies\n\n"
     \o "[PREVIOUS POSITION] | [Company Name] | [Dates]\n"
     \o "* Contributed to key projects and strategic initiatives\n"
     \o "* Developed and maintained professional relationships with stakeholders\n"
     \o "* Applied technical skills to solve complex business challenges\n\n"
     \o "EDUCATION\n"
     \o "[Degree] in [Field] | [University Name] | [Year]\n\n"
     \o "CERTIFICATIONS & ADDITIONAL QUALIFICATIONS\n"
     \o "[Relevant certifications based on your field]")

TemplateProposal ==
  Chars("BUSINESS PROPOSAL\n\n"
     \o "EXECUTIVE SUMMARY\n"
     \o "This proposal outlines a comprehensive solution to address the requirements specified: {prompt}\n\n"
     \o "PROBLEM STATEMENT\n"
     \o "Based on the current situation and needs identified, there are opportunities for improvement that can be addressed through strategic planning and implementation.\n\n"
     \o "PROPOSED SOLUTION\n"
     \o "Our recommended approach includes:\n"
     \o "* Thorough analysis of current processes and systems\n"
     \o "* Development of customized solutions tailored to specific requirements\n"
     \o "* Implementation of best practices and industry standards\n"
     \o "* Ongoing support and optimization\n\n"
     \o "IMPLEMENTATION PLAN\n"
     \o "Phase 1: Assessment and Planning (Weeks 1-2)\n"
     \o "* Detailed requirements gathering\n"
     \o "* Stakeholder interviews and analysis\n"
     \o "* Solution design and documentation\n\n"
     \o "Phase 2: Development and Testing (Weeks 3-6)\n"
     \o "* Solution development and configuration\n"
     \o "* Quality assurance and testing procedures\n"
     \o "* User training materials preparation\n\n"
     \o "Phase 3: Deployment and Support (Weeks 7-8)\n"
     \o "* System deployment and go-live support\n"
     \o "* User training and knowledge transfer\n"
     \o "* Post-implementation support and optimization\n\n"
     \o "EXPECTED OUTCOMES\n"
     \o "* Improved efficiency and productivity\n"
     \o "* Enhanced user experience and satisfaction\n"
     \o "* Measurable return on investment\n"
     \o "* Scalable solution for future growth\n\n"
     \o "BUDGET CONSIDERATIONS\n"
     \o "Investment required will be commensurate with the scope and complexity of the solution, with flexible options to meet budget requirements.\n\n"
     \o "CONCLUSION\n"
     \o "We are committed to delivering a solution that meets your specific needs and exceeds expectations. We look forward to the opportunity to discuss this proposal in detail.")

TemplateLetter ==
  Chars("[Date]\n\n"
     \o "[Recipient Name]\n"
     \o "[Recipient Title]\n"
     \o "[Company/Organization Name]\n"
     \o "[Address]\n\n"
     \o "Dear [Recipient Name/Title],\n\n"
     \o "I hope this letter finds you well. I am writing to address the matter outlined below:\n\n"
     \o "{prompt}\n\n"
     \o "I believe this correspondence will help clarify the situation and provide the necessary information for your consideration. Please find the relevant details and context provided above.\n\n"
     \o "I would appreciate your attention to this matter and look forward to your response. Should you require any additional information or clarification, please do not hesitate to contact me.\n\n"
     \o "Thank you for your time and consideration of this request.\n\n"
     \o "Sincerely,\n\n"
     \o "[Your Name]\n"
     \o "[Your Title]\n"
     \o "[Your Contact Information]")

TemplateDocument ==
  Chars("PROFESSIONAL DOCUMENT\n\n"
     \o "OVERVIEW\n"
     \o "This document has been prepared to address the requirements and specifications outlined in your request: {prompt}\n\n"
     \o "MAIN CONTENT\n"
     \o "Based on the information provided, this document covers the key areas of focus and provides comprehensive coverage of the relevant topics.\n\n"
     \o "The content has been structured to ensure clarity and accessibility, with logical organization and professional presentation throughout.\n\n"
     \o "KEY POINTS\n"
     \o "* Comprehensive coverage of specified requirements\n"
     \o "* Professional formatting and presentation\n"
     \o "* Clear and concise language appropriate for the intended audience\n"
     \o "* Actionable recommendations and next steps where applicable\n\n"
     \o "CONCLUSION\n"
     \o "This document provides a solid foundation for moving forward with the outlined objectives and requirements. Please review the content and let me know if any adjustments or additional information are needed.\n\n"
     \o "Thank you for the opportunity to prepare this document.")

note ==
  Chars("\n\n---\n"
     \o "Note: This document was generated using template mode. For enhanced AI-generated content, configure an API token in Streamlit secrets.")
templates ==
  (Chars("cover_letter") :> TemplateCoverLetter)
    @@ (Chars("resume") :> TemplateResume)
    @@ (Chars("proposal") :> TemplateProposal)
    @@ (Chars("letter") :> TemplateLetter)
    @@ (Chars("document") :> TemplateDocument)

\* dict.get(key, default)
get(dict, key, default) == IF key \in DOMAIN dict THEN dict[key] ELSE default

\* The parsing half of str.format, from position `from` of the format string:
\* the string is cut into pairs of a literal text and the replacement field
\* that follows it. "{{" and "}}" stand for one brace; a lone "}" or an
\* unclosed "{" raises ValueError.
NoField == <<"no field">>

RECURSIVE parse_from(_, _)
parse_from(t, from) ==
  LET braces == {i \in from..Len(t) : t[i] \in {"{", "}"}}
      i == Min(braces)
      closing == {j \in (i + 1)..Len(t) : t[j] = "}"}
      j == Min(closing)
      rest(k, literal, field) ==
        LET r == parse_from(t, k)
        IN IF r.exc = "" THEN Return(<<[literal |-> literal, field |-> field]>> \o r.val) ELSE r
  IN IF braces = {} THEN Return(<<[literal |-> SubSeq(t, from, Len(t)), field |-> NoField]>>)
     ELSE IF i < Len(t) /\ t[i + 1] = t[i] THEN rest(i + 2, SubSeq(t, from, i), NoField)
     ELSE IF t[i] = "}" THEN Raise("ValueError", "Single '}' encountered in format string")
     ELSE IF closing = {} THEN Raise("ValueError", "expected '}' before end of string")
     ELSE rest(j + 1, SubSeq(t, from, i - 1), SubSeq(t, i + 1, j - 1))

\* The substituting half, for format(prompt=prompt): each field is replaced by
\* the keyword argument of its name, whose text is not parsed again; an
\* unknown name raises KeyError, an empty one IndexError (there is no
\* positional argument).
RECURSIVE substitute(_, _)
substitute(parts, prompt) ==
  IF parts = <<>> THEN Return(<<>>)
  ELSE LET part == Head(parts)
           rest(text) ==
             LET r == substitute(Tail(parts), prompt)
             IN IF r.exc = "" THEN Return(part.literal \o text \o r.val) ELSE r
       IN IF part.field = NoField THEN rest(<<>>)
          ELSE IF part.field = <<>>
          THEN Raise("IndexError", "Replacement index 0 out of range for positional args tuple")
          ELSE IF part.field # Chars("prompt")
          THEN [exc |-> "KeyError", val |-> <<"'">> \o part.field \o <<"'">>]
          ELSE rest(prompt)

\* the format strings of the program, parsed
parsed_templates == [t \in Range(templates) |-> parse_from(t, 1)]

\* str.format(prompt=prompt)
format(t, prompt) ==
  LET parts == IF t \in DOMAIN parsed_templates THEN parsed_templates[t] ELSE parse_from(t, 1)
  IN IF parts.exc # "" THEN parts ELSE substitute(parts.val, prompt)

\* generate_with_template looking the label up as it is written, without lower()
generate_with_template_exact_label(prompt, document_type) ==
  LET formatted_content == format(get(templates, document_type, templates[Chars("document")]), prompt)
  IN IF formatted_content.exc # "" THEN formatted_content
     ELSE Return(formatted_content.val \o note)

generate_with_template(prompt, document_type) ==
  LET base_template == get(templates, lower(document_type), templates[Chars("document")])
      formatted_content == format(base_template, prompt)
  IN IF formatted_content.exc # "" THEN formatted_content
     ELSE Return(formatted_content.val \o note)

---------------------------------------------------------------------------
(* The values json.loads produces, and the Python operations the client    *)
(* applies to them. Each operation returns its value or raises as CPython  *)
(* does for an operand of that type.                                       *)

JNull == [t |-> "null"]
JNum == [t |-> "num"]
JStr(s) == [t |-> "str", s |-> s]
JList(l) == [t |-> "list", l |-> l]
JDict(f) == [t |-> "dict", f |-> f]
NoKeys == [k \in {} |-> JNull]

\* key in v, for a str key
py_in(key, v) ==
  CASE v.t = "dict" -> Return(key \in DOMAIN v.f)
    [] v.t = "list" -> Return(\E i \in DOMAIN v.l : v.l[i] = JStr(Chars(key)))
    [] v.t = "str" ->
         Return(\E i \in 1..(Len(v.s) - Len(key) + 1) : SubSeq(v.s, i, i + Len(key) - 1) = Chars(key))
    [] OTHER -> Raise("TypeError", "argument is not iterable")

\* len(v)
py_len(v) ==
  CASE v.t = "dict" -> Return(Cardinality(DOMAIN v.f))
    [] v.t = "list" -> Return(Len(v.l))
    [] v.t = "str" -> Return(Len(v.s))
    [] OTHER -> Raise("TypeError", "object has no len()")

\* v[key], for a str key
py_getitem(v, key) ==
  CASE v.t = "dict" ->
         IF key \in DOMAIN v.f THEN Return(v.f[key])
         ELSE [exc |-> "KeyError", val |-> <<"'">> \o Chars(key) \o <<"'">>]
    [] v.t \in {"list", "str"} -> Raise("TypeError", "indices must be integers or slices, not str")
    [] OTHER -> Raise("TypeError", "object is not subscriptable")

\* v[0]
py_first(v) ==
  CASE v.t = "list" ->
         IF v.l # <<>> THEN Return(v.l[1]) ELSE Raise("IndexError", "list index out of range")
    [] v.t = "str" ->
         IF v.s # <<>> THEN Return(JStr(<<v.s[1]>>)) ELSE Raise("IndexError", "string index out of range")
    [] v.t = "dict" -> Raise("KeyError", "0")
    [] OTHER -> Raise("TypeError", "object is not subscriptable")

\* v.strip()
py_strip(v) ==
  IF v.t = "str" THEN Return(strip(v.s))
  ELSE Raise("AttributeError", "object has no attribute 'strip'")

\* v.get(key, default)
py_get(v, key, default) ==
  IF v.t = "dict" THEN Return(IF key \in DOMAIN v.f THEN v.f[key] ELSE default)
  ELSE Raise("AttributeError", "object has no attribute 'get'")

\* f"{v}": the text of a str, None for null
py_str(v) ==
  CASE v.t = "str" -> v.s
    [] v.t = "null" -> Chars("None")
    [] v.t = "dict" /\ v.f = NoKeys -> Chars("{}")
    [] v.t = "list" /\ v.l = <<>> -> Chars("[]")

\* o, then F of its value unless o raised
Then(o, F(_)) == IF o.exc # "" THEN o ELSE F(o.val)

---------------------------------------------------------------------------
(* The completion endpoint, as requests.post sees it: the call raises, or  *)
(* returns a response with a status code and a body. A body is its raw     *)
(* text and what response.json() makes of it.                              *)

GROQ_API_URL == Chars("https://api.groq.com/openai/v1/chat/completions")

NotJson == [t |-> "invalid"]

\* json.dumps of a str
json_quote(s) ==
  <<"\"">> \o Flatten([i \in DOMAIN s |->
                        CASE s[i] = "\n" -> <<"\\", "n">>
                          [] s[i] = "\"" -> <<"\\", "\"">>
                          [] OTHER -> <<s[i]>>]) \o <<"\"">>

ContentWords == {Chars("Error:"), Chars("Dear Sir"), Chars(" "), Chars("\n")}
Contents == {Flatten(q) : q \in SeqsUpTo(ContentWords, MaxContentWords)}

CompletionBody(content) ==
  [text |-> Chars("{\"choices\": [{\"message\": {\"content\": ") \o json_quote(content) \o Chars("}}]}"),
   parsed |-> JDict([choices |-> JList(<<JDict([message |-> JDict([content |-> JStr(content)])])>>)])]

MalformedBodies ==
  { [text |-> Chars("<html>Bad Gateway</html>"), parsed |-> NotJson],
    [text |-> <<>>, parsed |-> NotJson],
    [text |-> Chars("{}"), parsed |-> JDict(NoKeys)],
    [text |-> Chars("[]"), parsed |-> JList(<<>>)],
    [text |-> Chars("null"), parsed |-> JNull],
    [text |-> Chars("\"choices\""), parsed |-> JStr(Chars("choices"))],
    [text |-> Chars("{\"choices\": []}"), parsed |-> JDict([choices |-> JList(<<>>)])],
    [text |-> Chars("{\"choices\": null}"), parsed |-> JDict([choices |-> JNull])],
    [text |-> Chars("{\"choices\": {}}"), parsed |-> JDict([choices |-> JDict(NoKeys)])],
    [text |-> Chars("{\"choices\": [{}]}"), parsed |-> JDict([choices |-> JList(<<JDict(NoKeys)>>)])],
    [text |-> Chars("{\"choices\": [{\"message\": {}}]}"),
     parsed |-> JDict([choices |-> JList(<<JDict([message |-> JDict(NoKeys)])>>)])],
    [text |-> Chars("{\"choices\": [{\"message\": null}]}"),
     parsed |-> JDict([choices |-> JList(<<JDict([message |-> JNull])>>)])],
    [text |-> Chars("{\"choices\": [{\"message\": {\"content\": null}}]}"),
     parsed |-> JDict([choices |-> JList(<<JDict([message |-> JDict([content |-> JNull])])>>)])] }

ErrorBodies ==
  { [text |-> Chars("{\"error\": {\"message\": \"Invalid API Key\"}}"),
     parsed |-> JDict([error |-> JDict([message |-> JStr(Chars("Invalid API Key"))])])],
    [text |-> Chars("{\"error\": {}}"), parsed |-> JDict([error |-> JDict(NoKeys)])],
    [text |-> Chars("{\"error\": {\"message\": null}}"),
     parsed |-> JDict([error |-> JDict([message |-> JNull])])],
    [text |-> Chars("{\"error\": \"rate limited\"}"), parsed |-> JDict([error |-> JStr(Chars("rate limited"))])],
    [text |-> Chars("{\"error\": null}"), parsed |-> JDict([error |-> JNull])] }

CompletionBodies == {CompletionBody(c) : c \in Contents}

Bodies == CompletionBodies \cup MalformedBodies \cup ErrorBodies

ErrorStatuses == {401, 500}

Failures ==
  { [kind |-> "Timeout", msg |-> Chars("Read timed out.")],
    [kind |-> "ConnectionError", msg |-> Chars("Failed to establish a new connection")],
    [kind |-> "RequestException", msg |-> Chars("Exceeded 30 redirects.")] }

Responses ==
  Failures
    \cup {[kind |-> "http", status_code |-> 200, body |-> b] : b \in Bodies}
    \cup {[kind |-> "http", status_code |-> s, body |-> b] : s \in ErrorStatuses, b \in ErrorBodies \cup MalformedBodies}

\* requests.post(url, json=payload, headers=headers, timeout=timeout)
post(reply) == IF reply.kind = "http" THEN Return(reply) ELSE [exc |-> reply.kind, val |-> reply.msg]

\* response.json()
json(response) ==
  IF response.body.parsed = NotJson THEN Raise("JSONDecodeError", "Expecting value: line 1 column 1 (char 0)")
  ELSE Return(response.body.parsed)

Request(payload, timeout) ==
  [url |-> GROQ_API_URL, json |-> payload, authorization |-> Chars("Bearer ") \o GROQ_API_TOKEN, timeout |-> timeout]

\* what an operation did: the outcome of the call, the st.* elements it
\* emitted and the HTTP requests it issued
Effect(out, emitted, sent) == [out |-> out, ui |-> emitted, requests |-> sent]

st(kind, text) == [st |-> kind, text |-> Chars(text)]

---------------------------------------------------------------------------
(* get_api_tokens and the module-level assignment of line 34               *)

NoSecrets == [k \in {} |-> <<>>]

\* st.secrets.get(key, default): raises when no secrets file is configured
secrets_get(key, default) ==
  IF ~secrets.available THEN Raise("StreamlitSecretNotFoundError", "No secrets found.")
  ELSE Return(get(secrets.store, key, default))

\* lines 27-32, given what the two lookups did
tokens_or_none(groq_token, hf_token) ==
  IF groq_token.exc # "" \/ hf_token.exc # ""
  THEN Effect(Return(<<<<>>, <<>>>>), <<st("warning", "No secrets configured. Using template mode only.")>>, <<>>)
  ELSE Effect(Return(<<groq_token.val, hf_token.val>>), <<>>, <<>>)

get_api_tokens == tokens_or_none(secrets_get("GROQ_TOKEN", <<>>), secrets_get("HF_TOKEN", <<>>))

---------------------------------------------------------------------------
(* AIClient.test_groq_connection                                           *)

\* lines 226-230, given what requests.post did
connection_result(response) ==
  IF response.exc = ""
  THEN Return(<<response.val.status_code = 200, Chars("Status: ") \o int_str(response.val.status_code)>>)
  ELSE Return(<<FALSE, response.val>>)

\* test_groq_connection without the test of the token at lines 210-211
test_groq_connection_unguarded(reply) ==
  Effect(connection_result(post(reply)), <<>>,
         <<Request([model |-> "mixtral-8x7b-32768",
                    messages |-> <<[role |-> "user", content |-> Chars("Hello")]>>,
                    max_tokens |-> 10],
                   10)>>)

test_groq_connection(reply) ==
  IF GROQ_API_TOKEN = <<>> THEN Effect(Return(<<FALSE, Chars("No API token")>>), <<>>, <<>>)
  ELSE Effect(connection_result(post(reply)), <<>>,
              <<Request([model |-> "mixtral-8x7b-32768",
                         messages |-> <<[role |-> "user", content |-> Chars("Hello")]>>,
                         max_tokens |-> 10],
                        10)>>)

---------------------------------------------------------------------------
(* AIClient.generate_with_groq                                             *)

system_prompts ==
  (Chars("cover_letter") :>
       Chars("You are a professional career advisor. Write a compelling, well-structured cover letter based on the provided information. Use proper business letter format with clear paragraphs, professional tone, and highlight relevant skills and experience. Make it engaging and tailored to the role."))
    @@ (Chars("resume") :>
       Chars("You are a professional resume writer. Create a comprehensive, well-structured resume based on the provided information. Include sections like Professional Summary, Work Experience (with bullet points of achievements), Education, Skills, and any other relevant sections. Use clear formatting and professional language."))
    @@ (Chars("proposal") :>
       Chars("You are a business proposal writer. Create a comprehensive business proposal based on the provided information. Include sections like Executive Summary, Problem Statement, Proposed Solution, Implementation Plan, Timeline, Budget Considerations, and Expected Outcomes. Make it professional and persuasive."))
    @@ (Chars("letter") :>
       Chars("You are a professional letter writer. Create a formal, well-structured letter based on the provided information. Use proper business letter format with appropriate greeting, body paragraphs, and closing. Maintain a professional and respectful tone throughout."))
    @@ (Chars("document") :>
       Chars("You are a professional document writer. Create a well-structured, professional document based on the provided information. Organize the content logically with clear headings and paragraphs."))


\* lines 271-276: the branch for status 200
groq_completion(response) ==
  Then(json(response), LAMBDA result :
    Then(py_in("choices", result), LAMBDA has_choices :
      IF ~has_choices THEN Return(Chars("Error: Invalid response format from API"))
      ELSE Then(py_getitem(result, "choices"), LAMBDA choices :
             Then(py_len(choices), LAMBDA n :
               IF ~(n > 0) THEN Return(Chars("Error: Invalid response format from API"))
               ELSE Then(py_first(choices), LAMBDA choice :
                      Then(py_getitem(choice, "message"), LAMBDA message :
                        Then(py_getitem(message, "content"), LAMBDA content :
                          py_strip(content))))))))

\* lines 279-282: the detail read from the body of an error response
groq_error_detail(response) ==
  Then(json(response), LAMBDA error_detail :
    Then(py_in("error", error_detail), LAMBDA has_error :
      IF ~has_error THEN Return(<<>>)
      ELSE Then(py_getitem(error_detail, "error"), LAMBDA error :
             Then(py_get(error, "message", JStr(Chars("Unknown error"))), LAMBDA message :
               Return(Chars(": ") \o py_str(message))))))

\* lines 278-285: the branch for every other status; the bare except at line
\* 283 puts the raw body in place of a detail that could not be read
groq_error_text(response, detail) ==
  Return(Chars("Error: ") \o Chars("API Error ") \o int_str(response.status_code)
           \o (IF detail.exc = "" THEN detail.val ELSE Chars(": ") \o response.body.text))

groq_api_error(response) == groq_error_text(response, groq_error_detail(response))

\* lines 269-285: the request and what is made of the response
groq_try(reply) ==
  Then(post(reply), LAMBDA response :
    IF response.status_code = 200 THEN groq_completion(response) ELSE groq_api_error(response))

\* groq_except without the except clauses: what the try block raised is raised
groq_uncaught(tried) == tried

\* lines 287-292: the except clauses
groq_except(tried) ==
  CASE tried.exc = "" -> tried
    [] tried.exc = "Timeout" -> Return(Chars("Error: Request timed out. Please try again."))
    [] tried.exc = "ConnectionError" ->
         Return(Chars("Error: Connection failed. Please check your internet connection."))
    [] OTHER -> Return(Chars("Error: ") \o tried.val)

\* lines 250-262
groq_payload(prompt, document_type) ==
  [model |-> "mixtral-8x7b-32768",
   messages |->
     <<[role |-> "system",
        content |-> get(system_prompts, lower(document_type), system_prompts[Chars("document")])],
       [role |-> "user",
        content |-> Chars("Please create a professional ") \o document_type
                      \o Chars(" based on the following requirements:\n\n") \o prompt]>>,
   max_tokens |-> 1500, temperature |-> "0.7", top_p |-> 1, stream |-> FALSE]

\* generate_with_groq posting a second time when the first post raised
generate_with_groq_retrying(prompt, document_type, reply) ==
  IF GROQ_API_TOKEN = <<>>
  THEN Effect(Return(Chars("Error: No Groq API token configured. Please add GROQ_TOKEN to Streamlit secrets.")),
              <<>>, <<>>)
  ELSE Effect(groq_except(groq_try(reply)), <<>>,
              IF reply.kind # "http"
              THEN <<Request(groq_payload(prompt, document_type), 30),
                     Request(groq_payload(prompt, document_type), 30)>>
              ELSE <<Request(groq_payload(prompt, document_type), 30)>>)

generate_with_groq(prompt, document_type, reply) ==
  IF GROQ_API_TOKEN = <<>>
  THEN Effect(Return(Chars("Error: No Groq API token configured. Please add GROQ_TOKEN to Streamlit secrets.")),
              <<>>, <<>>)
  ELSE Effect(groq_except(groq_try(reply)), <<>>, <<Request(groq_payload(prompt, document_type), 30)>>)

---------------------------------------------------------------------------
(* AIClient.generate_content                                               *)

\* result_or_template without the fallback of lines 456-458
result_without_fallback(groq, prompt, document_type) == groq

\* lines 455-459, given what generate_with_groq did
result_or_template(groq, prompt, document_type) ==
  IF groq.out.exc # "" THEN groq
  ELSE IF startswith(groq.out.val, Chars("Error:"))
  THEN Effect(generate_with_template(prompt, document_type),
              <<st("warning", "API generation failed, falling back to template mode...")>>,
              groq.requests)
  ELSE groq

generate_content(prompt, document_type, use_api, reply) ==
  IF use_api /\ GROQ_API_TOKEN # <<>>
  THEN result_or_template(generate_with_groq(prompt, document_type, reply), prompt, document_type)
  ELSE Effect(generate_with_template(prompt, document_type), <<>>, <<>>)

---------------------------------------------------------------------------
(* check_api_status                                                        *)

\* lines 469-476, given what test_groq_connection did
status_of(tested) ==
  Effect(Return(IF tested.out.exc = ""
                THEN [groq |-> tested.out.val[1], groq_message |-> tested.out.val[2]]
                ELSE [groq |-> FALSE, groq_message |-> tested.out.val]),
         tested.ui, tested.requests)

check_api_status(reply) ==
  IF GROQ_API_TOKEN # <<>> THEN status_of(test_groq_connection(reply))
  ELSE Effect(Return([groq |-> FALSE, groq_message |-> Chars("No token configured")]), <<>>, <<>>)

---------------------------------------------------------------------------
(* PDFGenerator                                                            *)

\* lines 147-151: the replacements, each of one character by one character.
\* No replacement is itself replaced by a later line, so the five calls in
\* sequence change each character as this table does.
replacements ==
  (RSQUO :> "'") @@ (LDQUO :> "\"") @@ (RDQUO :> "\"") @@ (NDASH :> "-") @@ (MDASH :> "-")

\* clean_text_for_pdf writing an em dash as two hyphens
clean_text_widening(text) ==
  Flatten([i \in DOMAIN text |->
             IF text[i] = MDASH THEN <<"-", "-">>
             ELSE IF text[i] \in DOMAIN replacements THEN <<replacements[text[i]]>>
             ELSE <<text[i]>>])

clean_text_for_pdf(text) ==
  [i \in DOMAIN text |-> IF text[i] \in DOMAIN replacements THEN replacements[text[i]] ELSE text[i]]

Paragraph(text, style) == [flowable |-> "Paragraph", text |-> text, style |-> style]
Spacer(width, height) == [flowable |-> "Spacer", width |-> width, height |-> height]

\* datetime.now().strftime(fmt): the clock is outside the program, and the
\* formatted time is kept as one token
strftime(fmt) == <<fmt>>

\* styled with the length test written <= 80
styled_upto_80(text) ==
  IF Len(text) <= 80 /\ (isupper(text) \/ endswith(text, <<":">>))
  THEN <<Paragraph(text, "CustomHeader"), Spacer(1, 12)>>
  ELSE <<Paragraph(text, "CustomBody"), Spacer(1, 12)>>

\* lines 181-186, for the stripped text of a unit
styled(text) ==
  IF Len(text) < 80 /\ (isupper(text) \/ endswith(text, <<":">>))
  THEN <<Paragraph(text, "CustomHeader"), Spacer(1, 12)>>
  ELSE <<Paragraph(text, "CustomBody"), Spacer(1, 12)>>

\* unit_flowables without the test of line 179
unit_flowables_unfiltered(para) == styled(strip(para))

\* lines 179-186: the flowables of one unit of the split text
unit_flowables(para) == IF strip(para) # <<>> THEN styled(strip(para)) ELSE <<>>

\* lines 178-186
units_flowables(paragraphs) == Flatten([i \in DOMAIN paragraphs |-> unit_flowables(paragraphs[i])])

\* lines 167-194: the story handed to doc.build
build_story(content, document_type) ==
  <<Paragraph(clean_text_for_pdf(document_type), "CustomTitle"), Spacer(1, 20)>>
    \o units_flowables(split(clean_text_for_pdf(content), <<"\n", "\n">>))
    \o <<Spacer(1, 30),
         Paragraph(Chars("Generated on ") \o strftime("%B %d, %Y") \o Chars(" using AI PDF Generator"),
                   "Normal")>>

\* What the layout library does with the story: it lays it out, or one of
\* its calls raises (as Paragraph does on markup it cannot parse). The
\* library is outside this program.
LayoutOutcomes == {"ok", "raises"}

None == [bytes |-> "None"]
PdfBytes(story) == [bytes |-> "%PDF", pagesize |-> "A4", margins |-> <<72, 72, 72, 72>>, story |-> story]

\* lines 157-198: the body of the try statement
create_pdf_try(content, document_type, layout) ==
  IF layout = "ok" THEN Return(PdfBytes(build_story(content, document_type)))
  ELSE Raise("ValueError", "paraparser: syntax error")

\* create_pdf_except without the except clause
create_pdf_uncaught(tried) == Effect(tried, <<>>, <<>>)

\* lines 200-202: the except clause
create_pdf_except(tried) ==
  IF tried.exc = "" THEN Effect(tried, <<>>, <<>>)
  ELSE Effect(Return(None), <<[st |-> "error", text |-> Chars("PDF Generation Error: ") \o tried.val]>>, <<>>)

create_pdf(content, document_type, layout) ==
  create_pdf_except(create_pdf_try(content, document_type, layout))

---------------------------------------------------------------------------
(* main. One execution is followed as the record of what it has done so    *)
(* far: the exception that ended it (exc, "" while it runs), the elements   *)
(* emitted, the requests sent, the calls made to generate_content and to   *)
(* create_pdf with their results, and st.session_state.                    *)

document_types ==
  (Chars("Cover Letter") :> Chars("cover_letter"))
    @@ (Chars("Resume") :> Chars("resume"))
    @@ (Chars("Business Proposal") :> Chars("proposal"))
    @@ (Chars("Formal Letter") :> Chars("letter"))
    @@ (Chars("Custom Document") :> Chars("document"))

\* len(content.split()), which the script only displays, is kept as one token
word_count(content) == <<"{word_count}">>

\* main_status taking use_api from the presence of the credential, whatever
\* the probe said
main_status_by_credential(checked, checkbox) ==
  [exc |-> checked.out.exc,
   api_status |-> checked.out.val,
   use_api |-> GROQ_API_TOKEN # <<>>,
   ui |-> checked.ui
            \o (IF checked.out.exc # "" THEN <<>>
                ELSE IF checked.out.val.groq THEN <<st("sidebar.markdown", "Groq API: Connected")>>
                ELSE <<[st |-> "sidebar.markdown", text |-> Chars("AI API: ") \o checked.out.val.groq_message],
                       st("sidebar.info", "Add GROQ_TOKEN in Streamlit secrets for AI generation")>>),
   requests |-> checked.requests,
   generated |-> <<>>,
   rendered |-> <<>>,
   session_state |-> session_state]

\* lines 496-510: the status display and use_api, given what
\* check_api_status did
main_status(checked, checkbox) ==
  [exc |-> checked.out.exc,
   api_status |-> checked.out.val,
   use_api |-> IF checked.out.exc = "" /\ checked.out.val.groq THEN checkbox ELSE FALSE,
   ui |-> checked.ui
            \o (IF checked.out.exc # "" THEN <<>>
                ELSE IF checked.out.val.groq THEN <<st("sidebar.markdown", "Groq API: Connected")>>
                ELSE <<[st |-> "sidebar.markdown", text |-> Chars("AI API: ") \o checked.out.val.groq_message],
                       st("sidebar.info", "Add GROQ_TOKEN in Streamlit secrets for AI generation")>>),
   requests |-> checked.requests,
   generated |-> <<>>,
   rendered |-> <<>>,
   session_state |-> session_state]

\* the call of generate_content at line 581 or 605, added to the run
with_content(r, prompt, document_type, made) ==
  [r EXCEPT !.exc = made.out.exc,
            !.ui = @ \o made.ui,
            !.requests = @ \o made.requests,
            !.generated = Append(@, [prompt |-> prompt, document_type |-> document_type,
                                     use_api |-> r.use_api, out |-> made.out])]

\* the content the last call of generate_content returned
content_of(r) == r.generated[Len(r.generated)].out.val

\* lines 583-599
preview_shown(r) ==
  IF r.exc # "" THEN r
  ELSE IF startswith(content_of(r), Chars("Error:"))
  THEN [r EXCEPT !.ui = Append(@, st("markdown", "Generation Error:"))]
  ELSE [r EXCEPT !.ui = @ \o <<st("markdown", "Content Preview"),
                               [st |-> "info",
                                text |-> Chars("Generated ") \o word_count(content_of(r)) \o Chars(" words")]>>]

\* lines 579-599
main_preview(r, selected_doc_type, prompt, preview_btn, reply) ==
  IF r.exc = "" /\ preview_btn /\ strip(prompt) # <<>>
  THEN preview_shown(with_content(r, prompt, document_types[selected_doc_type],
                                  generate_content(prompt, document_types[selected_doc_type], r.use_api, reply)))
  ELSE r

\* the call of create_pdf at line 615, added to the run
with_pdf(r, selected_doc_type, made) ==
  [r EXCEPT !.exc = made.out.exc,
            !.ui = @ \o made.ui,
            !.rendered = Append(@, [content |-> content_of(r), document_type |-> selected_doc_type,
                                    out |-> made.out])]

\* lines 617-641
pdf_shown(r, selected_doc_type) ==
  IF r.exc # "" THEN r
  ELSE IF r.rendered[Len(r.rendered)].out.val.bytes # "None"
  THEN [r EXCEPT !.ui = @ \o
          <<st("markdown", "Success! Your PDF document has been generated successfully!"),
            [st |-> "download_button",
             text |-> Chars("Download PDF Document"),
             file_name |-> replace(selected_doc_type, " ", "_") \o <<"_">>
                             \o strftime("%Y%m%d_%H%M%S") \o Chars(".pdf"),
             mime |-> "application/pdf"],
            [st |-> "success",
             text |-> Chars("Generated ") \o word_count(content_of(r)) \o Chars(" words in PDF format")]>>]
  ELSE [r EXCEPT !.ui = Append(@, st("error", "Failed to generate PDF. Please try again."))]

\* lines 607-641
content_rendered(r, selected_doc_type, layout) ==
  IF r.exc # "" THEN r
  ELSE IF startswith(content_of(r), Chars("Error:"))
  THEN [r EXCEPT !.ui = Append(@, st("markdown", "Content Generation Error:"))]
  ELSE pdf_shown(with_pdf(r, selected_doc_type, create_pdf(content_of(r), selected_doc_type, layout)),
                 selected_doc_type)

\* main_generate testing the button alone, without prompt.strip()
main_generate_unguarded(r, selected_doc_type, prompt, generate_btn, reply, layout) ==
  IF r.exc = "" /\ generate_btn
  THEN content_rendered(with_content(r, prompt, document_types[selected_doc_type],
                                     generate_content(prompt, document_types[selected_doc_type], r.use_api, reply)),
                        selected_doc_type, layout)
  ELSE r

\* lines 602-641
main_generate(r, selected_doc_type, prompt, generate_btn, reply, layout) ==
  IF r.exc = "" /\ generate_btn /\ strip(prompt) # <<>>
  THEN content_rendered(with_content(r, prompt, document_types[selected_doc_type],
                                     generate_content(prompt, document_types[selected_doc_type], r.use_api, reply)),
                        selected_doc_type, layout)
  ELSE r

\* lines 717-718
initialised(state) == IF "generation_count" \in DOMAIN state THEN state ELSE [generation_count |-> 0]

\* lines 720-721
counted(state, generate_btn, prompt) ==
  IF generate_btn /\ strip(prompt) # <<>> THEN [state EXCEPT !.generation_count = @ + 1] ELSE state

\* lines 723
metric_shown(r) ==
  [r EXCEPT !.ui = Append(@, [st |-> "metric", text |-> Chars("Documents Generated"),
                              value |-> r.session_state.generation_count])]

\* lines 705-723
main_statistics(r, prompt, generate_btn) ==
  IF r.exc # "" THEN r
  ELSE metric_shown(
         [r EXCEPT !.ui = Append(@, IF r.use_api /\ r.api_status.groq
                                    THEN st("success", "AI Mode: Enhanced Generation")
                                    ELSE IF GROQ_API_TOKEN # <<>> /\ ~r.api_status.groq
                                    THEN st("warning", "AI Mode: Connection Issues")
                                    ELSE st("info", "Template Mode: Basic Generation")),
                   !.session_state = counted(initialised(@), generate_btn, prompt)])

\* One execution of main(). probe and reply are what the endpoint answers to
\* the connectivity probe and to the generation request, should the run send
\* them; checkbox, selected_doc_type, prompt and the two buttons are the
\* widget values of this run; layout is what the layout library does, should
\* the run render.
main(probe, checkbox, selected_doc_type, prompt, preview_btn, generate_btn, reply, layout) ==
  main_statistics(
    main_generate(
      main_preview(main_status(check_api_status(probe), checkbox),
                   selected_doc_type, prompt, preview_btn, reply),
      selected_doc_type, prompt, generate_btn, reply, layout),
    prompt, generate_btn)

---------------------------------------------------------------------------
(* The inputs the operations are applied to.                               *)

\* the states of the secret store: no secrets file, a file without the
\* keys, and a file holding GROQ_TOKEN
SecretStores ==
  { [available |-> FALSE, store |-> NoSecrets],
    [available |-> TRUE, store |-> NoSecrets],
    [available |-> TRUE, store |-> [GROQ_TOKEN |-> Chars("gsk_1")]] }

PromptWords == {Chars("a"), Chars("{prompt}"), Chars("}{"), <<"\n", "\n">>}
Prompts == {Flatten(q) : q \in SeqsUpTo(PromptWords, MaxPromptWords)}

Labels ==
  {Chars("cover_letter"), Chars("resume"), Chars("proposal"), Chars("letter"), Chars("document"),
   Chars("Resume"), Chars("memo")}

\* the labels the remote operations are applied to: a known one, a known one
\* in another case, an unknown one
RemoteLabels == {Chars("proposal"), Chars("Resume"), Chars("memo")}

CleanWords == {<<LSQUO>>, <<RSQUO>>, <<LDQUO>>, <<RDQUO>>, <<NDASH>>, <<MDASH>>, Chars("a"), Chars("'")}
CleanTexts == {Flatten(q) : q \in SeqsUpTo(CleanWords, MaxCleanWords)}

\* a word of 79 capital letters: alone it is the longest text line 181 takes
\* for a heading, with one more character it is too long
LongWord == [i \in 1..79 |-> "A"]
TextWords == {Chars("SUMMARY"), Chars("Our plan"), LongWord, <<":">>, <<"\n", "\n">>, <<"\n">>, <<" ">>}
PdfTexts == {Flatten(q) : q \in SeqsUpTo(TextWords, MaxTextWords)}
Titles == {Chars("Document"), <<LDQUO, "Q", "&", "A", RDQUO>>}

ShellWords == {<<" ">>, Chars("a"), Chars("Error:")}
ShellPrompts == {Flatten(q) : q \in SeqsUpTo(ShellWords, MaxShellWords)}

\* what the endpoint answers in an execution of the script
ProbeResponses ==
  { [kind |-> "Timeout", msg |-> Chars("Read timed out.")],
    [kind |-> "http", status_code |-> 200, body |-> CompletionBody(Chars("Hello!"))],
    [kind |-> "http", status_code |-> 401,
     body |-> [text |-> Chars("{\"error\": {}}"), parsed |-> JDict([error |-> JDict(NoKeys)])]] }
ShellResponses ==
  { [kind |-> "Timeout", msg |-> Chars("Read timed out.")],
    [kind |-> "ConnectionError", msg |-> Chars("Failed to establish a new connection")],
    [kind |-> "http", status_code |-> 200, body |-> CompletionBody(Chars("Dear Sir"))],
    [kind |-> "http", status_code |-> 200, body |-> CompletionBody(Chars("Error: quota"))],
    [kind |-> "http", status_code |-> 200, body |-> [text |-> Chars("{}"), parsed |-> JDict(NoKeys)]],
    [kind |-> "http", status_code |-> 200, body |-> [text |-> <<>>, parsed |-> NotJson]],
    [kind |-> "http", status_code |-> 500,
     body |-> [text |-> Chars("{\"error\": {}}"), parsed |-> JDict([error |-> JDict(NoKeys)])]] }

\* the buttons: a click causes one execution, in which that button is True
Buttons == {[preview |-> FALSE, generate |-> FALSE], [preview |-> TRUE, generate |-> FALSE],
            [preview |-> FALSE, generate |-> TRUE]}

Idle == [op |-> "none"]

---------------------------------------------------------------------------
(* The state after construction, and the steps.                            *)

Init ==
  /\ secrets \in SecretStores
  /\ started = "no"
  /\ GROQ_API_TOKEN = <<>>
  /\ session_state = [k \in {} |-> 0]
  /\ call = Idle
  /\ ui = <<>>
  /\ requests = <<>>

\* line 34, given what get_api_tokens did
Imported(tokens) ==
  /\ started' = IF tokens.out.exc = "" THEN "running" ELSE "crashed"
  /\ GROQ_API_TOKEN' = IF tokens.out.exc = "" THEN tokens.out.val[1] ELSE <<>>
  /\ ui' = tokens.ui
  /\ UNCHANGED <<secrets, session_state, call, requests>>

\* Lines 14-103: the module-level statements, which every execution of the
\* script and every import of the module runs first.
Import == started = "no" /\ Imported(get_api_tokens)

\* the state an execution of main() leaves
Ran(inputs, run) ==
  /\ call' = [op |-> "main", inputs |-> inputs, exc |-> run.exc, api_status |-> run.api_status,
              use_api |-> run.use_api, generated |-> run.generated, rendered |-> run.rendered]
  /\ ui' = ui \o run.ui
  /\ requests' = run.requests
  /\ session_state' = run.session_state
  /\ UNCHANGED <<secrets, started, GROQ_API_TOKEN>>

\* Lines 725-726: Streamlit executes the script, and so main(), once per
\* user interaction. The widgets' disabled flag is enforced by the browser,
\* so a button may arrive True whatever the prompt is. The inputs an execution
\* does not read are fixed.
Main ==
  /\ started = "running"
  /\ call = Idle
  /\ \E selected_doc_type \in DOMAIN document_types, prompt \in ShellPrompts :
     \E button \in {b \in Buttons : b.generate => initialised(session_state).generation_count < MaxGenerations} :
     \E probe \in (IF GROQ_API_TOKEN # <<>> THEN ProbeResponses ELSE {CHOOSE r \in ProbeResponses : TRUE}) :
     \E checkbox \in (IF check_api_status(probe).out.val.groq THEN BOOLEAN ELSE {FALSE}) :
     \E reply \in (IF checkbox /\ (button.preview \/ button.generate) /\ strip(prompt) # <<>>
                   THEN ShellResponses ELSE {CHOOSE r \in ShellResponses : TRUE}) :
     \E layout \in (IF button.generate /\ strip(prompt) # <<>> THEN LayoutOutcomes ELSE {"ok"}) :
       Ran([probe |-> probe, checkbox |-> checkbox, selected_doc_type |-> selected_doc_type,
            prompt |-> prompt, preview_btn |-> button.preview, generate_btn |-> button.generate,
            reply |-> reply, layout |-> layout],
           main(probe, checkbox, selected_doc_type, prompt, button.preview, button.generate, reply, layout))

\* The execution of the script ends: its globals and what it displayed are
\* discarded, st.session_state is kept for the next execution.
RunEnds ==
  /\ call.op = "main"
  /\ started' = "no"
  /\ GROQ_API_TOKEN' = <<>>
  /\ call' = Idle
  /\ ui' = <<>>
  /\ requests' = <<>>
  /\ UNCHANGED <<secrets, session_state>>

Next == Import \/ Main \/ RunEnds

Spec == Init /\ [][Next]_vars

---------------------------------------------------------------------------
(* The methods of AIClient, called on an imported module.                  *)

\* the state a call leaves
Called(op, args, effect) ==
  /\ call' = [op |-> op, args |-> args, out |-> effect.out]
  /\ ui' = effect.ui
  /\ requests' = effect.requests
  /\ UNCHANGED <<secrets, started, GROQ_API_TOKEN, session_state>>

Callable == started = "running" /\ call = Idle

CallTestGroqConnection ==
  /\ Callable
  /\ \E reply \in Responses :
       Called("test_groq_connection", [reply |-> reply], test_groq_connection(reply))

CallCheckApiStatus ==
  /\ Callable
  /\ \E reply \in Responses :
       Called("check_api_status", [reply |-> reply], check_api_status(reply))

CallGenerateWithGroq ==
  /\ Callable
  /\ \E prompt \in Prompts, document_type \in RemoteLabels, reply \in Responses :
       Called("generate_with_groq", [prompt |-> prompt, document_type |-> document_type, reply |-> reply],
              generate_with_groq(prompt, document_type, reply))

CallGenerateWithTemplate ==
  /\ Callable
  /\ \E prompt \in Prompts, document_type \in Labels :
       Called("generate_with_template", [prompt |-> prompt, document_type |-> document_type],
              Effect(generate_with_template(prompt, document_type), <<>>, <<>>))

CallGenerateContent ==
  /\ Callable
  /\ \E prompt \in Prompts, document_type \in RemoteLabels, use_api \in BOOLEAN, reply \in Responses :
       Called("generate_content",
              [prompt |-> prompt, document_type |-> document_type, use_api |-> use_api, reply |-> reply],
              generate_content(prompt, document_type, use_api, reply))

\* the call has returned, and its result is dropped
Returned ==
  /\ call # Idle
  /\ call.op # "main"
  /\ call' = Idle
  /\ ui' = <<>>
  /\ requests' = <<>>
  /\ UNCHANGED <<secrets, started, GROQ_API_TOKEN, session_state>>

NextClient ==
  \/ Import
  \/ CallTestGroqConnection
  \/ CallCheckApiStatus
  \/ CallGenerateWithGroq
  \/ CallGenerateWithTemplate
  \/ CallGenerateContent
  \/ Returned

SpecClient == Init /\ [][NextClient]_vars

---------------------------------------------------------------------------
(* The methods of PDFGenerator, called on an imported module.              *)

CallCleanTextForPdf ==
  /\ Callable
  /\ \E text \in CleanTexts :
       Called("clean_text_for_pdf", [text |-> text], Effect(Return(clean_text_for_pdf(text)), <<>>, <<>>))

CallCreatePdf ==
  /\ Callable
  /\ \E content \in PdfTexts, document_type \in Titles, layout \in LayoutOutcomes :
       Called("create_pdf", [content |-> content, document_type |-> document_type, layout |-> layout],
              create_pdf(content, document_type, layout))

NextPdf == Import \/ CallCleanTextForPdf \/ CallCreatePdf \/ Returned

SpecPdf == Init /\ [][NextPdf]_vars

---------------------------------------------------------------------------
(* The properties.                                                         *)

Emitted(element) == \E i \in DOMAIN ui : ui[i] = element
EmittedKind(kind) == \E i \in DOMAIN ui : ui[i].st = kind

FallbackWarning == st("warning", "API generation failed, falling back to template mode...")

\* the endpoint answered 200 with a body whose first choice carries a text
IsCompletion(reply) ==
  /\ reply.kind = "http"
  /\ reply.status_code = 200
  /\ reply.body \in CompletionBodies

ContentSent(reply) == reply.body.parsed.f.choices.l[1].f.message.f.content.s

\* generate_content was called with use_api true while a credential is configured
RemoteCall ==
  /\ call.op = "generate_content"
  /\ call.args.use_api
  /\ GROQ_API_TOKEN # <<>>

\* C1: when use_api is true, a credential is configured and the endpoint
\* answers 200 with a completion, generate_content returns the text of the
\* completion, stripped, for every text.
C1_CompletionReturnedStripped ==
  (RemoteCall /\ IsCompletion(call.args.reply))
    => call.out = Return(strip(ContentSent(call.args.reply)))

\* C2: when use_api is true and a credential is configured, for every remote
\* failure generate_content returns what generate_with_template returns for
\* the same prompt and label, and emits the fallback warning.
C2_FailureFallsBackToTemplate ==
  (RemoteCall /\ ~IsCompletion(call.args.reply))
    => /\ call.out = generate_with_template(call.args.prompt, call.args.document_type)
       /\ call.out.exc = ""
       /\ Emitted(FallbackWarning)
       /\ Len(requests) = 1

C2_Witness ==
  /\ RemoteCall
  /\ call.args.reply.kind = "http"
  /\ call.args.reply.status_code = 500
  /\ Emitted(FallbackWarning)

\* C3: generate_with_groq and test_groq_connection raise nothing, whatever
\* the endpoint does: for every failure generate_with_groq returns a text
\* that starts with "Error:" and test_groq_connection returns False with a
\* message.
C3_RemoteErrorsAreReturned ==
  /\ call.op = "generate_with_groq"
       => /\ call.out.exc = ""
          /\ (~IsCompletion(call.args.reply) \/ GROQ_API_TOKEN = <<>>)
               => startswith(call.out.val, Chars("Error:"))
  /\ call.op = "test_groq_connection"
       => /\ call.out.exc = ""
          /\ (GROQ_API_TOKEN = <<>> \/ call.args.reply.kind # "http" \/ call.args.reply.status_code # 200)
               => (call.out.val[1] = FALSE /\ call.out.val[2] # <<>>)

C3_Witness ==
  /\ call.op = "generate_with_groq"
  /\ GROQ_API_TOKEN # <<>>
  /\ call.args.reply.kind = "Timeout"
  /\ Len(requests) = 1

\* the template the label stands for: its own whatever the case of its
\* letters, the one of "document" for a label that is not known
TemplateOf(label) ==
  CASE label = Chars("cover_letter") -> TemplateCoverLetter
    [] label = Chars("resume") -> TemplateResume
    [] label = Chars("Resume") -> TemplateResume
    [] label = Chars("proposal") -> TemplateProposal
    [] label = Chars("letter") -> TemplateLetter
    [] label = Chars("document") -> TemplateDocument
    [] label = Chars("memo") -> TemplateDocument

\* text is template with prompt in the place of the placeholder, then the note
Filled(text, template, prompt) ==
  \E k \in 1..(Len(template) - 7) :
    /\ SubSeq(template, k, k + 7) = Chars("{prompt}")
    /\ text = SubSeq(template, 1, k - 1) \o prompt \o SubSeq(template, k + 8, Len(template)) \o note

\* C4: for a non-empty prompt, braces and blank lines included, and any
\* label, generate_with_template raises nothing and returns the template of
\* the label with the prompt, as it is, in the place of the placeholder,
\* followed by the note about template mode.
C4_TemplateFilledWithPrompt ==
  (call.op = "generate_with_template" /\ call.args.prompt # <<>>)
    => /\ call.out.exc = ""
       /\ Filled(call.out.val, TemplateOf(call.args.document_type), call.args.prompt)

C4_Witness ==
  /\ call.op = "generate_with_template"
  /\ call.args.prompt = Chars("{prompt}")
  /\ call.args.document_type = Chars("Resume")
  /\ call.out.exc = ""

\* the section headers of a template: its lines made of capital letters,
\* spaces and "&"
SectionHeaders(template) ==
  LET lines == split(template, <<"\n">>)
  IN {lines[i] : i \in {j \in DOMAIN lines :
                          /\ isupper(lines[j])
                          /\ \A k \in DOMAIN lines[j] : lines[j][k] \in Upper \cup {" ", "&"}}}

section_headers == [t \in Range(templates) |-> SectionHeaders(t)]

IsHeading(flowable, text) ==
  /\ flowable.flowable = "Paragraph"
  /\ flowable.style = "CustomHeader"
  /\ flowable.text = text

\* the execution rendered the text of a template
RenderedTemplate ==
  /\ call.op = "main"
  /\ Len(call.rendered) = 1
  /\ call.inputs.layout = "ok"
  /\ Return(call.rendered[1].content)
       = generate_with_template(call.inputs.prompt, document_types[call.inputs.selected_doc_type])

\* C5: when the text generate_with_template returns is given to create_pdf,
\* every section header of the template is a paragraph in the heading style.
C5_SectionHeadersAreHeadings ==
  RenderedTemplate
    => \A header \in section_headers[templates[document_types[call.inputs.selected_doc_type]]] :
         \E i \in DOMAIN call.rendered[1].out.val.story :
           IsHeading(call.rendered[1].out.val.story[i], header)

Typographic == {LSQUO, RSQUO, LDQUO, RDQUO, NDASH, MDASH}

\* C6: the text clean_text_for_pdf returns holds no directional quotation
\* mark and no en or em dash.
C6_NoTypographicPunctuationLeft ==
  call.op = "clean_text_for_pdf"
    => \A i \in DOMAIN call.out.val : call.out.val[i] \notin Typographic

\* C7: clean_text_for_pdf returns a text as long as its argument, in which
\* every character that is no directional quote and no dash is in its place.
C7_OnlyPunctuationAltered ==
  call.op = "clean_text_for_pdf"
    => /\ Len(call.out.val) = Len(call.args.text)
       /\ \A i \in DOMAIN call.args.text :
            call.args.text[i] \notin Typographic => call.out.val[i] = call.args.text[i]

C7_Witness ==
  /\ call.op = "clean_text_for_pdf"
  /\ call.args.text = <<MDASH, "a">>
  /\ call.out.val = <<"-", "a">>

\* the request generate_with_groq sends, told from the probe by its timeout
IsGeneration(request) == request.timeout = 30

\* C8: in an execution whose prompt is empty or all whitespace,
\* generate_content is not called, whatever button was clicked, and so no
\* generation request is sent and nothing is rendered; every call passes
\* the prompt of the execution.
C8_BlankPromptGeneratesNothing ==
  call.op = "main"
    => /\ strip(call.inputs.prompt) = <<>>
            => /\ call.generated = <<>>
               /\ call.rendered = <<>>
               /\ \A i \in DOMAIN requests : ~IsGeneration(requests[i])
       /\ \A i \in DOMAIN call.generated : call.generated[i].prompt = call.inputs.prompt

C8_Witness ==
  /\ call.op = "main"
  /\ call.inputs.generate_btn
  /\ call.inputs.prompt = <<" ">>
  /\ call.generated = <<>>

\* C9: create_pdf raises nothing: when the layout fails it emits its
\* diagnostic and returns None, and the execution then shows the failure
\* message and no download; a download is offered only for the bytes
\* create_pdf returned.
C9_RenderFailureIsReported ==
  call.op = "main"
    => /\ call.exc = ""
       /\ \A i \in DOMAIN call.rendered : call.rendered[i].out.exc = ""
       /\ (Len(call.rendered) = 1 /\ call.inputs.layout = "raises")
            => /\ call.rendered[1].out.val = None
               /\ Emitted([st |-> "error",
                           text |-> Chars("PDF Generation Error: paraparser: syntax error")])
               /\ Emitted(st("error", "Failed to generate PDF. Please try again."))
               /\ ~EmittedKind("download_button")
       /\ EmittedKind("download_button")
            => (Len(call.rendered) = 1 /\ call.rendered[1].out.val.bytes = "%PDF")

C9_Witness ==
  /\ call.op = "main"
  /\ Len(call.rendered) = 1
  /\ call.inputs.layout = "raises"
  /\ Emitted(st("error", "Failed to generate PDF. Please try again."))

\* C10: without a credential (no secrets file, or no GROQ_TOKEN in it) the
\* module-level code does not fail and leaves the token empty, no method
\* sends a request, and generate_content returns what generate_with_template
\* returns, whatever use_api is.
C10_NoCredentialNoRequest ==
  /\ started # "crashed"
  /\ (started = "running" /\ (~secrets.available \/ "GROQ_TOKEN" \notin DOMAIN secrets.store))
       => GROQ_API_TOKEN = <<>>
  /\ GROQ_API_TOKEN = <<>>
       => /\ requests = <<>>
          /\ call.op = "generate_content"
               => call.out = generate_with_template(call.args.prompt, call.args.document_type)
          /\ call.op \in {"generate_content", "generate_with_groq", "test_groq_connection", "check_api_status"}
               => call.out.exc = ""

C10_Witness ==
  /\ started = "running"
  /\ ~secrets.available
  /\ call.op = "generate_content"
  /\ call.args.use_api
  /\ requests = <<>>

\* the units of the text create_pdf was given: the pieces of the cleaned
\* text between blank lines that are more than whitespace, stripped
UnitsOf(content) ==
  LET pieces == split(clean_text_for_pdf(content), <<"\n", "\n">>)
      kept == SelectSeq(pieces, LAMBDA piece : \E i \in DOMAIN piece : piece[i] \notin Whitespace)
  IN [k \in DOMAIN kept |-> strip(kept[k])]

\* the text has a capital letter and no small letter
FullyUpper(text) ==
  /\ \E i \in DOMAIN text : text[i] \in Upper
  /\ \A i \in DOMAIN text : text[i] \notin Lower

LooksLikeHeading(text) ==
  /\ Len(text) < 80
  /\ (FullyUpper(text) \/ text[Len(text)] = ":")

\* create_pdf laid the story out
Rendered ==
  /\ call.op = "create_pdf"
  /\ call.args.layout = "ok"

StoryOf(c) == c.out.val.story

\* C11: create_pdf gives a non-empty unit the heading style exactly when its
\* stripped text is shorter than 80 characters and is all capitals or ends
\* with ":"; every other non-empty unit gets the body style.
C11_HeadingIffShortAndCapitalsOrColon ==
  Rendered
    => /\ \A k \in DOMAIN UnitsOf(call.args.content) :
            \E i \in 3..(Len(StoryOf(call)) - 2) :
              /\ StoryOf(call)[i].flowable = "Paragraph"
              /\ StoryOf(call)[i].text = UnitsOf(call.args.content)[k]
       /\ \A i \in 3..(Len(StoryOf(call)) - 2) :
            StoryOf(call)[i].flowable = "Paragraph"
              => StoryOf(call)[i].style =
                   IF LooksLikeHeading(StoryOf(call)[i].text) THEN "CustomHeader" ELSE "CustomBody"

C11_Witness ==
  /\ Rendered
  /\ call.args.content = LongWord \o <<":">> \o <<"\n", "\n">>
  /\ Len(StoryOf(call)[3].text) = 80
  /\ StoryOf(call)[3].style = "CustomBody"

\* the reply is a timeout, a connection failure or an error status
RequestFailed(reply) == reply.kind # "http" \/ reply.status_code # 200

\* C12: a call of generate_content posts at most once to the completion
\* endpoint, and only when use_api is true and a credential is configured;
\* after a timeout, a connection failure or an error status it has posted
\* once and returns the text of the template; every call returns a text.
C12_AtMostOnePost ==
  call.op = "generate_content"
    => /\ call.out.exc = ""
       /\ Len(requests) = (IF RemoteCall THEN 1 ELSE 0)
       /\ \A i \in DOMAIN requests :
            requests[i].url = GROQ_API_URL /\ IsGeneration(requests[i])
       /\ (RemoteCall /\ RequestFailed(call.args.reply))
            => call.out.val = generate_with_template(call.args.prompt, call.args.document_type).val

C12_Witness ==
  /\ RemoteCall
  /\ call.args.reply.kind = "ConnectionError"
  /\ Len(requests) = 1
  /\ call.out.exc = ""

Footer ==
  Paragraph(Chars("Generated on ") \o strftime("%B %d, %Y") \o Chars(" using AI PDF Generator"), "Normal")

\* C13: the story create_pdf lays out is the title, a spacer, then for each
\* unit of the cleaned text that is more than whitespace, in the order of
\* the text and once each, a paragraph of the stripped unit and a spacer,
\* then a spacer and the footer line; blank units add nothing.
C13_StoryFollowsTheUnits ==
  Rendered
    => /\ Len(StoryOf(call)) = 4 + 2 * Len(UnitsOf(call.args.content))
       /\ StoryOf(call)[1] = Paragraph(clean_text_for_pdf(call.args.document_type), "CustomTitle")
       /\ StoryOf(call)[2] = Spacer(1, 20)
       /\ \A k \in DOMAIN UnitsOf(call.args.content) :
            /\ StoryOf(call)[2 * k + 1].flowable = "Paragraph"
            /\ StoryOf(call)[2 * k + 1].text = UnitsOf(call.args.content)[k]
            /\ StoryOf(call)[2 * k + 2] = Spacer(1, 12)
       /\ StoryOf(call)[Len(StoryOf(call)) - 1] = Spacer(1, 30)
       /\ StoryOf(call)[Len(StoryOf(call))] = Footer

C13_Witness ==
  /\ Rendered
  /\ call.args.content = Chars("SUMMARY") \o <<"\n", "\n">> \o <<" ">>
  /\ Len(StoryOf(call)) = 6
  /\ StoryOf(call)[3].text = Chars("SUMMARY")

\* st.session_state.generation_count, 0 before line 718 has set it
CountOf(state) == IF "generation_count" \in DOMAIN state THEN state.generation_count ELSE 0

\* the documents the elements shown offer for download
Offered(elements) == Cardinality({i \in DOMAIN elements : elements[i].st = "download_button"})

\* an execution of main() has just ended
MainRan == call.op = "none" /\ call'.op = "main"

\* C14: generation_count is the number of documents rendered and offered
\* for download in the session: it starts at 0 and every execution of main()
\* adds to it the number of documents that execution offers, so that a
\* preview, a blank prompt and a failed rendering leave it as it was.
C14_CountsOfferedDocuments ==
  /\ CountOf(session_state) = 0
  /\ [][MainRan => CountOf(session_state') = CountOf(session_state) + Offered(ui')]_vars

\* the execution called generate_content, from Preview or from Generate PDF
Generated ==
  /\ call.op = "main"
  /\ strip(call.inputs.prompt) # <<>>
  /\ (call.inputs.preview_btn \/ call.inputs.generate_btn)

\* C15: whatever the prompt, the document type, use_api and the reply of
\* the endpoint, the text generate_content returns does not start with
\* "Error:"; so the execution shows neither error message about the content,
\* and every Generate PDF with a prompt that is not blank calls create_pdf.
C15_ContentIsNeverAnError ==
  call.op = "main"
    => /\ Generated => Len(call.generated) = 1
       /\ \A i \in DOMAIN call.generated :
            /\ call.generated[i].out.exc = ""
            /\ ~startswith(call.generated[i].out.val, Chars("Error:"))
       /\ ~Emitted(st("markdown", "Generation Error:"))
       /\ ~Emitted(st("markdown", "Content Generation Error:"))
       /\ (call.inputs.generate_btn /\ strip(call.inputs.prompt) # <<>>)
            => /\ Len(call.rendered) = 1
               /\ call.rendered[1].content = call.generated[1].out.val

C15_Witness ==
  /\ Generated
  /\ call.inputs.generate_btn
  /\ call.use_api
  /\ call.inputs.reply.kind = "Timeout"
  /\ Len(call.rendered) = 1

\* the connectivity probe of the execution was answered with status 200
ProbeSucceeded ==
  /\ call.inputs.probe.kind = "http"
  /\ call.inputs.probe.status_code = 200

\* C16: an execution of main() sends a generation request only after its
\* own probe was answered with status 200 and with the "Use AI API" box
\* checked; with a credential and a failed probe, use_api is false, the
\* content is the text of the template, no generation request is sent and
\* no fallback warning is shown.
C16_GenerationOnlyAfterGoodProbe ==
  call.op = "main"
    => /\ \A i \in DOMAIN requests :
            IsGeneration(requests[i])
              => /\ ProbeSucceeded
                 /\ call.inputs.checkbox
                 /\ i > 1
                 /\ requests[1].timeout = 10
       /\ (GROQ_API_TOKEN # <<>> /\ ~ProbeSucceeded)
            => /\ ~call.use_api
               /\ Len(requests) = 1
               /\ ~IsGeneration(requests[1])
               /\ ~Emitted(FallbackWarning)
               /\ \A i \in DOMAIN call.generated :
                    call.generated[i].out
                      = generate_with_template(call.inputs.prompt, call.generated[i].document_type)

C16_Witness ==
  /\ call.op = "main"
  /\ GROQ_API_TOKEN # <<>>
  /\ call.inputs.probe.kind = "http"
  /\ call.inputs.probe.status_code = 401
  /\ call.inputs.generate_btn
  /\ Len(call.generated) = 1
  /\ Len(requests) = 1

====
